---- MODULE Spec2Model ----
(***************************************************************************)
(* Model of the ping-pong match server (src/main.py): the Player and Match *)
(* tables of the SQLite store and the three handlers that read or write    *)
(* them, end_match, leaderboard and leaderboard_page.                      *)
(*                                                                         *)
(* The handlers are "async def" bodies without an await, so each request   *)
(* runs to completion before the next one starts: one action per request.  *)
(* An exception inside "with Session(engine)" closes the session, which    *)
(* rolls back whatever the request flushed; only session.commit() makes    *)
(* the writes of a request permanent.                                      *)
(***************************************************************************)
EXTENDS Integers, Sequences, FiniteSets, TLC

VARIABLES
    Player,     \* the Player table: id -> row
    Match,      \* the Match table: sequence of rows, the row's id is its index
    handler,    \* the handler that answered the last request
    request,    \* the dict the last request carried (a function on its keys)
    response    \* the answer to the last request

vars == <<Player, Match, handler, request, response>>

(***************************************************************************)
(* Bounds and input sets                                                   *)
(***************************************************************************)
MaxMatches == 2

\* Python's None, for the "int | None" ids. Ids drawn by the model are positive.
None == -1

DefaultPlayer1Id == 1
DefaultPlayer2Id == 2
DefaultPoints == 0
DefaultSatsReward == 0
DefaultPlayer1Name == "Player1"
DefaultPlayer2Name == "AI"

\* A key of the request dict: absent (the empty function) or one of Vals.
Field(k, Vals) == {<<>>} \cup {k :> v : v \in Vals}

\* The keys of a request that carry no id, all submitted.
Details ==
    ("player1_name" :> "Alice") @@ ("player2_name" :> "Bob") @@
    ("points_p1" :> 11) @@ ("points_p2" :> 7) @@ ("sats_reward" :> 100)

\* The player ids of a request: both absent, the same player twice, a third
\* player, or None in one of the two slots.
PlayerIds ==
    {<<>>, "player1_id" :> 2, "player1_id" :> 3,
     "player1_id" :> None, "player2_id" :> None}

\* Requests that submit ids only: every other key takes its default.
IdRequests ==
    { w @@ ids : w \in Field("winner_id", {1, 2, 3}), ids \in PlayerIds }

\* Requests that submit names, points and a reward as well.
DetailRequests ==
    { w @@ a @@ Details :
        w \in Field("winner_id", {1, 2}),
        a \in Field("player1_id", {None, 2}) }

Requests == IdRequests \cup DetailRequests

\* Where a storage failure strikes a request, if anywhere.
EndMatchFailures == {"none", "lookup", "commit", "refresh"}
QueryFailures == {"none", "query"}

(***************************************************************************)
(* Helpers                                                                 *)
(***************************************************************************)
\* dict.get(key, default)
Get(d, k, default) == IF k \in DOMAIN d THEN d[k] ELSE default

\* Player(id=pid, username=name): the counters start at their defaults.
NewPlayer(name) ==
    [username |-> name, total_wins |-> 0, total_losses |-> 0, total_sats_won |-> 0]

Max(S) == CHOOSE x \in S : \A y \in S : y <= x

\* The id SQLite gives a row inserted with a NULL INTEGER PRIMARY KEY.
NextRowId(T) == IF DOMAIN T = {} THEN 1 ELSE Max(DOMAIN T) + 1

\* session.get(Player, pid): the row's id, or None when there is no such row.
SessionGet(T, pid) == IF pid # None /\ pid \in DOMAIN T THEN pid ELSE None

\* FetchOrCreate with the else branch of the loop lost: a row that exists
\* keeps its username.
FetchOrCreateKeepName(T, pid, name) ==
    IF pid # None /\ pid \in DOMAIN T
    THEN T
    ELSE LET id == IF pid = None THEN NextRowId(T) ELSE pid
         IN  (id :> NewPlayer(name)) @@ T

\* One turn of the loop over the two player slots.
FetchOrCreate(T, pid, name) ==
    IF SessionGet(T, pid) = None
    THEN LET id == IF pid = None THEN NextRowId(T) ELSE pid
         IN  (id :> NewPlayer(name)) @@ T
    ELSE [T EXCEPT ![pid].username = name]

\* Loser with the two branches exchanged.
LoserSwapped(winner, p1, p2) == IF winner = p2 THEN p2 ELSE p1

\* Loser as a three-way branch: nobody loses to a winner who is no player.
LoserThreeWay(winner, p1, p2) ==
    IF winner = p2 THEN p1 ELSE IF winner = p1 THEN p2 ELSE None

\* Line 92: the Player id looked up as the loser.
Loser(winner, p1, p2) == IF winner = p2 THEN p1 ELSE p2

\* AddWin with the reward left out.
AddWinWithoutSats(T, winner_player, sats_reward) ==
    IF winner_player # None
    THEN [T EXCEPT ![winner_player].total_wins = @ + 1]
    ELSE T

AddWin(T, winner_player, sats_reward) ==
    IF winner_player # None
    THEN [T EXCEPT ![winner_player].total_wins = @ + 1,
                   ![winner_player].total_sats_won = @ + sats_reward]
    ELSE T

AddLoss(T, loser_player) ==
    IF loser_player # None
    THEN [T EXCEPT ![loser_player].total_losses = @ + 1]
    ELSE T

NewMatch(p1, p2, winner, points_p1, points_p2, sats_reward) ==
    [player1_id |-> p1, player2_id |-> p2, winner_id |-> winner,
     total_points_p1 |-> points_p1, total_points_p2 |-> points_p2,
     sats_reward |-> sats_reward]

\* The Player table as the session leaves it at session.commit().
PlayersAfter(T, match) ==
    LET winner == Get(match, "winner_id", None)
        p1 == Get(match, "player1_id", DefaultPlayer1Id)
        p2 == Get(match, "player2_id", DefaultPlayer2Id)
        sats_reward == Get(match, "sats_reward", DefaultSatsReward)
        p1_name == Get(match, "player1_name", DefaultPlayer1Name)
        p2_name == Get(match, "player2_name", DefaultPlayer2Name)
        T1 == FetchOrCreate(T, p1, p1_name)
        T2 == FetchOrCreate(T1, p2, p2_name)
        winner_player == SessionGet(T2, winner)
        loser_player == SessionGet(T2, Loser(winner, p1, p2))
    IN  AddLoss(AddWin(T2, winner_player, sats_reward), loser_player)

MatchRow(match) ==
    NewMatch(Get(match, "player1_id", DefaultPlayer1Id),
             Get(match, "player2_id", DefaultPlayer2Id),
             Get(match, "winner_id", None),
             Get(match, "points_p1", DefaultPoints),
             Get(match, "points_p2", DefaultPoints),
             Get(match, "sats_reward", DefaultSatsReward))

\* Whether the request reaches the end of session.commit().
Committed(fail) == fail \in {"none", "refresh"}

\* EndMatchResponse with an HTTP error status for a caught failure.
EndMatchResponse500(fail, match_id) ==
    IF fail = "none"
    THEN [status_code |-> 200, media_type |-> "json", kind |-> "message",
          match_id |-> match_id, rows |-> <<>>]
    ELSE [status_code |-> 500, media_type |-> "json", kind |-> "error",
          match_id |-> 0, rows |-> <<>>]

EndMatchResponse(fail, match_id) ==
    IF fail = "none"
    THEN [status_code |-> 200, media_type |-> "json", kind |-> "message",
          match_id |-> match_id, rows |-> <<>>]
    ELSE [status_code |-> 200, media_type |-> "json", kind |-> "error",
          match_id |-> 0, rows |-> <<>>]

\* OrderByWinsDesc with .asc() in the place of .desc().
RECURSIVE OrderByWinsAsc(_, _)
OrderByWinsAsc(T, S) ==
    IF S = {} THEN {<<>>}
    ELSE UNION { { <<x>> \o rest : rest \in OrderByWinsAsc(T, S \ {x}) } :
                 x \in { y \in S : \A z \in S : T[y].total_wins <= T[z].total_wins } }

\* select(Player).order_by(Player.total_wins.desc()): the orders of the ids the
\* store may answer in; SQL leaves the order of rows with equal wins open.
RECURSIVE OrderByWinsDesc(_, _)
OrderByWinsDesc(T, S) ==
    IF S = {} THEN {<<>>}
    ELSE UNION { { <<x>> \o rest : rest \in OrderByWinsDesc(T, S \ {x}) } :
                 x \in { y \in S : \A z \in S : T[z].total_wins <= T[y].total_wins } }

\* One dict of the JSON leaderboard.
Entry(p) ==
    [username |-> p.username, wins |-> p.total_wins,
     losses |-> p.total_losses, sats |-> p.total_sats_won]

\* The win rate of a table row in tenths of a percent, as "{win_rate:.1f}"
\* prints it (no value falls halfway between two tenths below 16 games).
WinRate(p) ==
    LET total_games == p.total_wins + p.total_losses
    IN  IF total_games > 0
        THEN (2000 * p.total_wins + total_games) \div (2 * total_games)
        ELSE 0

\* One <tr> of the HTML leaderboard.
TableRow(i, p) ==
    [rank |-> i, username |-> p.username, wins |-> p.total_wins,
     losses |-> p.total_losses, win_rate |-> WinRate(p), sats |-> p.total_sats_won]

LeaderboardResponse(T, players, fail) ==
    IF fail = "none"
    THEN [status_code |-> 200, media_type |-> "json", kind |-> "list",
          match_id |-> 0, rows |-> [i \in 1..Len(players) |-> Entry(T[players[i]])]]
    ELSE [status_code |-> 200, media_type |-> "json", kind |-> "error",
          match_id |-> 0, rows |-> <<>>]

LeaderboardPageResponse(T, players, fail) ==
    IF fail = "none"
    THEN [status_code |-> 200, media_type |-> "html", kind |-> "page",
          match_id |-> 0, rows |-> [i \in 1..Len(players) |-> TableRow(i, T[players[i]])]]
    ELSE [status_code |-> 500, media_type |-> "html", kind |-> "error",
          match_id |-> 0, rows |-> <<>>]

(***************************************************************************)
(* Handlers                                                                *)
(***************************************************************************)
Init ==
    /\ Player = <<>>
    /\ Match = <<>>
    /\ handler = "startup"
    /\ request = <<>>
    /\ response = [status_code |-> 0, media_type |-> "", kind |-> "",
                   match_id |-> 0, rows |-> <<>>]

end_match(match, fail) ==
    /\ Len(Match) < MaxMatches
    /\ handler' = "end_match"
    /\ request' = match
    /\ IF Committed(fail)
       THEN /\ Player' = PlayersAfter(Player, match)
            /\ Match' = Append(Match, MatchRow(match))
       ELSE UNCHANGED <<Player, Match>>
    /\ response' = EndMatchResponse(fail, Len(Match) + 1)

leaderboard(players, fail) ==
    /\ handler' = "leaderboard"
    /\ request' = <<>>
    /\ response' = LeaderboardResponse(Player, players, fail)
    /\ UNCHANGED <<Player, Match>>

leaderboard_page(players, fail) ==
    /\ handler' = "leaderboard_page"
    /\ request' = <<>>
    /\ response' = LeaderboardPageResponse(Player, players, fail)
    /\ UNCHANGED <<Player, Match>>

Next ==
    \/ \E match \in Requests, fail \in EndMatchFailures : end_match(match, fail)
    \/ \E players \in OrderByWinsDesc(Player, DOMAIN Player), fail \in QueryFailures :
          leaderboard(players, fail)
    \/ \E players \in OrderByWinsDesc(Player, DOMAIN Player), fail \in QueryFailures :
          leaderboard_page(players, fail)

Spec == Init /\ [][Next]_vars

(***************************************************************************)
(* Vocabulary of the properties                                            *)
(***************************************************************************)
\* The step is a match submission that session.commit() made permanent.
Saved == handler' = "end_match" /\ Len(Match') = Len(Match) + 1

\* The ids the saved request resolved, as end_match reads them.
ReqWinner(d) == Get(d, "winner_id", None)
ReqP1(d) == Get(d, "player1_id", DefaultPlayer1Id)
ReqP2(d) == Get(d, "player2_id", DefaultPlayer2Id)

\* A counter of player x in table T; a player without a row has counted nothing.
Counter(T, x, c) == IF x \in DOMAIN T THEN T[x][c] ELSE 0

Counters == {"total_wins", "total_losses", "total_sats_won"}

RECURSIVE SumOver(_, _, _)
SumOver(T, S, c) ==
    IF S = {} THEN 0
    ELSE LET x == CHOOSE y \in S : TRUE
         IN  T[x][c] + SumOver(T, S \ {x}, c)

RECURSIVE SatsOfWinner(_, _)
SatsOfWinner(ms, x) ==
    IF ms = <<>> THEN 0
    ELSE (IF Head(ms).winner_id = x THEN Head(ms).sats_reward ELSE 0)
         + SatsOfWinner(Tail(ms), x)

MatchesWonBy(x) == {i \in 1..Len(Match) : Match[i].winner_id = x}

TypeOK == Len(Match) <= MaxMatches

(***************************************************************************)
(* C1                                                                      *)
(***************************************************************************)
\* C1: in every saved match submission the Player whose id is winner_id gains
\* exactly one win and exactly sats_reward sats, and when winner_id is one of
\* the two submitted player ids, the other player gains exactly one loss.
C1_WinnerAndLoserCounters ==
    [][Saved =>
        LET w == ReqWinner(request')
            p1 == ReqP1(request')
            p2 == ReqP2(request')
            reward == Get(request', "sats_reward", DefaultSatsReward)
        IN  /\ (w # None /\ w \in DOMAIN Player') =>
                /\ Player'[w].total_wins = Counter(Player, w, "total_wins") + 1
                /\ Player'[w].total_sats_won =
                       Counter(Player, w, "total_sats_won") + reward
            /\ \A x \in {p1, p2} :
                 (w # None /\ w \in {p1, p2} /\ x # None /\ x # w) =>
                    /\ x \in DOMAIN Player'
                    /\ Player'[x].total_losses =
                           Counter(Player, x, "total_losses") + 1
    ]_vars

\* A second match won by player 1 against player 2 with a reward of 100.
C1_Witness ==
    /\ handler = "end_match" /\ response.kind = "message" /\ Len(Match) = 2
    /\ ReqWinner(request) = 1 /\ ReqP1(request) = 1 /\ ReqP2(request) = 2
    /\ Get(request, "sats_reward", DefaultSatsReward) = 100
    /\ Player[1].total_wins = 2 /\ Player[1].total_sats_won = 100
    /\ Player[2].total_losses = 2

(***************************************************************************)
(* C2                                                                      *)
(***************************************************************************)
\* C2: a saved match submission without the winner_id key leaves the three
\* counters of every Player as they were before the request.
C2_AbsentWinnerNoCounters ==
    [][(Saved /\ "winner_id" \notin DOMAIN request') =>
        \A x \in DOMAIN Player' : \A c \in Counters :
            Player'[x][c] = Counter(Player, x, c)
    ]_vars

(***************************************************************************)
(* C3                                                                      *)
(***************************************************************************)
\* C3: every id in the player1_id, player2_id or winner_id field of a stored
\* Match row is the id of a Player row.
C3_PlayerRowForEveryMatchId ==
    \A i \in 1..Len(Match) :
        \A id \in {Match[i].player1_id, Match[i].player2_id, Match[i].winner_id} :
            id # None => id \in DOMAIN Player

(***************************************************************************)
(* C4                                                                      *)
(***************************************************************************)
\* C4 as stated: after every saved match submission Player player1_id is
\* named player1_name and Player player2_id is named player2_name.
C4_BothUsernamesAsSubmitted ==
    [][Saved =>
        LET p1 == ReqP1(request')
            p2 == ReqP2(request')
        IN  /\ p1 # None =>
                 Player'[p1].username =
                     Get(request', "player1_name", DefaultPlayer1Name)
            /\ p2 # None =>
                 Player'[p2].username =
                     Get(request', "player2_name", DefaultPlayer2Name)
    ]_vars

\* C4 amended: after every saved match submission Player player2_id is named
\* player2_name, and Player player1_id is named player1_name unless both ids
\* are the same, when the one row carries player2_name; every other row keeps
\* its username, so a replaced username is nowhere in the store.
C4_UsernamesOverwritten ==
    [][Saved =>
        LET p1 == ReqP1(request')
            p2 == ReqP2(request')
            n1 == Get(request', "player1_name", DefaultPlayer1Name)
            n2 == Get(request', "player2_name", DefaultPlayer2Name)
        IN  /\ p2 # None => Player'[p2].username = n2
            /\ (p1 # None /\ p1 # p2) => Player'[p1].username = n1
            /\ \A x \in DOMAIN Player' :
                 \/ Player'[x].username \in {n1, n2}
                 \/ x \in DOMAIN Player /\ Player'[x].username = Player[x].username
            /\ \A x \in (DOMAIN Player) \cap {p1, p2} : Player'[x].username \in {n1, n2}
    ]_vars

\* Player 1, created as "Player1", was renamed "Alice" by a second match.
C4_Witness ==
    /\ handler = "end_match" /\ Len(Match) = 2
    /\ "player1_id" \notin DOMAIN request
    /\ Get(request, "player1_name", DefaultPlayer1Name) = "Alice"
    /\ Player[1].username = "Alice"
    /\ Player[1].total_wins + Player[1].total_losses >= 1
    /\ \A x \in DOMAIN Player : Player[x].username # DefaultPlayer1Name

(***************************************************************************)
(* C5                                                                      *)
(***************************************************************************)
\* C5: an answered leaderboard has exactly one entry per stored Player, with
\* that Player's username and counters, in non-increasing order of wins.
C5_LeaderboardListsPlayersByWins ==
    (handler = "leaderboard" /\ response.kind = "list") =>
        LET rows == response.rows
            Shown(x) == [username |-> Player[x].username,
                         wins |-> Player[x].total_wins,
                         losses |-> Player[x].total_losses,
                         sats |-> Player[x].total_sats_won]
            entries == {Shown(x) : x \in DOMAIN Player}
        IN  /\ Len(rows) = Cardinality(DOMAIN Player)
            /\ \A i \in 1..Len(rows) : rows[i] \in entries
            /\ \A e \in entries :
                 Cardinality({i \in 1..Len(rows) : rows[i] = e}) =
                 Cardinality({x \in DOMAIN Player : Shown(x) = e})
            /\ \A i \in 1..Len(rows) : \A j \in i..Len(rows) :
                 rows[i].wins >= rows[j].wins

\* A leaderboard of three players whose last entry has fewer wins than the first.
C5_Witness ==
    /\ handler = "leaderboard" /\ response.kind = "list"
    /\ Len(response.rows) = 3
    /\ response.rows[1].wins > response.rows[3].wins

(***************************************************************************)
(* C6                                                                      *)
(***************************************************************************)
\* C6 as stated: in all three handlers a caught failure is answered with
\* status 200 and a JSON body that describes the error.
C6_EveryErrorIs200Json ==
    response.kind = "error" =>
        response.status_code = 200 /\ response.media_type = "json"

\* C6 amended: end_match and leaderboard answer a caught failure with status
\* 200 and a JSON body that describes the error; leaderboard_page answers it
\* with status 500 and an HTML body.
C6_ErrorAnswers ==
    response.kind = "error" =>
        IF handler = "leaderboard_page"
        THEN response.status_code = 500 /\ response.media_type = "html"
        ELSE /\ handler \in {"end_match", "leaderboard"}
             /\ response.status_code = 200 /\ response.media_type = "json"

\* A match submission failed after an earlier one was saved.
C6_Witness ==
    /\ handler = "end_match" /\ response.kind = "error"
    /\ response.status_code = 200 /\ Len(Match) = 1

(***************************************************************************)
(* C7                                                                      *)
(***************************************************************************)
\* C7: a match submission answered {message, match_id} has saved exactly one
\* new Match row together with its Player changes, and one answered
\* {error, details} has changed no Match row and no Player row.
C7_AllOrNothing ==
    [][handler' = "end_match" =>
        /\ response'.kind = "message" =>
             /\ Match' = Append(Match, MatchRow(request'))
             /\ response'.match_id = Len(Match')
             /\ {ReqP1(request'), ReqP2(request')} \ {None} \subseteq DOMAIN Player'
        /\ response'.kind = "error" => (Match' = Match /\ Player' = Player)
    ]_vars

(***************************************************************************)
(* C8                                                                      *)
(***************************************************************************)
\* C8 as stated: in a saved submission whose winner_id is not player2_id,
\* player 1 is the loser and gains the loss.
C8_Player1LosesUnlessWinnerIsP2 ==
    [][(Saved /\ ReqWinner(request') # ReqP2(request')
              /\ ReqP1(request') # None) =>
        Player'[ReqP1(request')].total_losses =
            Counter(Player, ReqP1(request'), "total_losses") + 1
    ]_vars

\* C8 amended: in a saved submission player 1 is the loser when winner_id
\* equals player2_id and player 2 is the loser for every other winner_id; the
\* loser's Player row, if its id is not None, gains exactly one loss and no
\* other Player's total_losses changes.
C8_LoserRule ==
    [][Saved =>
        LET w == ReqWinner(request')
            p1 == ReqP1(request')
            p2 == ReqP2(request')
            l == IF w = p2 THEN p1 ELSE p2
        IN  \A x \in DOMAIN Player' :
                Player'[x].total_losses =
                    Counter(Player, x, "total_losses") + (IF x = l THEN 1 ELSE 0)
    ]_vars

\* Player 1 won as winner_id 1 and then as an id that is no player's: player 2
\* took both losses.
C8_Witness ==
    /\ handler = "end_match" /\ Len(Match) = 2
    /\ Match[1].winner_id = 1 /\ Match[2].winner_id = 3
    /\ \A i \in 1..2 : Match[i].player1_id = 1 /\ Match[i].player2_id = 2
    /\ Player[2].total_losses = 2 /\ Player[1].total_losses = 0

(***************************************************************************)
(* C9                                                                      *)
(***************************************************************************)
\* C9: every Player's total_wins is the number of stored Match rows with its
\* id as winner_id, and its total_sats_won the sum of their sats_reward.
C9_WinsMatchStoredMatches ==
    \A x \in DOMAIN Player :
        /\ Player[x].total_wins = Cardinality(MatchesWonBy(x))
        /\ Player[x].total_sats_won = SatsOfWinner(Match, x)

(***************************************************************************)
(* C10                                                                     *)
(***************************************************************************)
\* C10: when no stored Match row has None as player1_id or player2_id, the
\* total_losses of all Players add up to the number of stored Match rows and
\* the total_wins of all Players add up to at most that number.
C10_OneLossPerMatch ==
    (\A i \in 1..Len(Match) :
        Match[i].player1_id # None /\ Match[i].player2_id # None) =>
        /\ SumOver(Player, DOMAIN Player, "total_losses") = Len(Match)
        /\ SumOver(Player, DOMAIN Player, "total_wins") <= Len(Match)

\* Two saved matches between players with ids, only one of them with a winner
\* who has a Player row.
C10_Witness ==
    /\ Len(Match) = 2
    /\ \A i \in 1..2 : Match[i].player1_id # None /\ Match[i].player2_id # None
    /\ SumOver(Player, DOMAIN Player, "total_losses") = 2
    /\ SumOver(Player, DOMAIN Player, "total_wins") = 1
====
